---- MODULE Spec2Model ----
(***************************************************************************)
(* Model of the availability core of pick-a: the token-bucket RateLimiter  *)
(* of server.py, the /api/availability route, the dispatcher of            *)
(* check_availability.py and the slot parsers of opentable.py and resy.py. *)
(*                                                                         *)
(* Units.  Time is counted in ticks of 0.05 s, tokens in units of          *)
(* 1/TokenUnit token, a rate in units per tick.  With the rates and        *)
(* capacities below every wait_time = (1 - tokens) / rate is a whole       *)
(* number of ticks, so that a sleep of the model lasts as long as the      *)
(* sleep of the code; wait_time is not divided out: it is kept as the      *)
(* deficit `need' and compared after multiplying both sides by rate.       *)
(*                                                                         *)
(* Floats.  The code computes in IEEE doubles, the model in integers.      *)
(* The two differ only by rounding: a double result lies within a few      *)
(* ulps of the exact value, and which side it lies on depends on the       *)
(* clock readings, which the model does not have (the difference of two    *)
(* readings 1.9 s apart need not be the double 1.9).  Rounding decides an  *)
(* outcome only where a comparison of the code is met with equality in     *)
(* exact arithmetic.  The model therefore keeps, next to                   *)
(* the exact count `tokens', the side `rounding' on which the stored       *)
(* double lies when the count is a whole number of tokens (-1 below, 0     *)
(* equal, 1 above), chosen by Refill among the sides the arithmetic can    *)
(* produce, and lets the deadline test go either way when both of its      *)
(* sides are equal.                                                        *)
(***************************************************************************)
EXTENDS Integers, Sequences, FiniteSets, TLC

\* ---------------------------------------------------------------- bounds
NumThreads == 2
NumWorkers == 1
MaxCalls   == 3
MaxRequests == 2
MaxTime    == 1
MaxTimeout == 1
MaxSlots   == 2
\* the ticks a request or a waiter is followed for, and the later calls that
\* come while a waiter waits
MaxWait     == 2
MaxArrivals == 2

\* ------------------------------------------------------ units, constants
TokenUnit      == 800
TicksPerSecond == 20
\* line 52: the 0.1 of min(wait_time, 0.1), in ticks
PollQuantum    == 2
\* line 147: acquire(timeout=30), in ticks
GatewayTimeout == 600

Threads  == 1..NumThreads
\* the threads that serve requests of the web application
Workers  == 1..NumWorkers
NoThread == 0
Timeouts == {0, MaxTimeout}

\* line 16: the default of RATE_LIMIT_RPS, 20 tokens per second, in units
\* per tick
RATE_LIMIT_RPS == 800
\* rate values (units per tick: 0.025 and 0.5 tokens per second, and the
\* default) and capacity arguments (units: None and one token) a
\* RateLimiter is constructed with
Rates        == {1, 20, RATE_LIMIT_RPS}
NoCapacity   == 0
CapacityArgs == {NoCapacity, TokenUnit}

Min(a, b) == IF a <= b THEN a ELSE b

\* ------------------------------------------------------------- variables
VARIABLES
  now,          \* time.monotonic(), in ticks
  rate,         \* RateLimiter.rate
  capacity,     \* RateLimiter.capacity
  tokens,       \* RateLimiter.tokens, the exact count
  rounding,     \* the side of `tokens' the stored double lies on
  last_update,  \* RateLimiter.last_update
  lock,         \* RateLimiter.lock: the thread holding it, or NoThread
  pc,           \* per thread: position in the code
  deadline,     \* per thread: local `deadline' of acquire
  need,         \* per thread: 1 - tokens, the numerator of wait_time
  sleptAt,      \* per thread: time at which time.sleep was entered
  result,       \* per thread: return value of acquire ("none" until it returns)
  drained,      \* per thread: the limiter was drained and slow at the call
  waiter,       \* per thread, for the calls of Call: "waiting" when the
                \* call came first, has to wait and has a timeout of twice
                \* the refill of what it lacks; "delayed" once the clock
                \* advanced while it was due to run, "rounded" once its
                \* deadline test was met with equality and went against
                \* it; else "none"
  calls,        \* number of acquire calls or requests made
  granted,      \* number of acquire calls that returned True
  req,          \* per thread: the query of the request being served
  status,       \* per thread: HTTP status of the response (0: none yet)
  body,         \* per thread: shape of the JSON response ("none" before)
  fault,        \* per thread: the code path that produced a failure
  adapter,      \* per thread: the adapter find_availability called
  sent,         \* per thread: upstream HTTP calls made for the request
  prev,         \* the failure cause and status of the last response sent
  call,         \* the adapter call under study: platform, date, response
  outcome       \* what that call returned or raised (NotRun before)

limiterVars == <<rate, capacity, tokens, rounding, last_update, lock>>
threadVars  == <<pc, deadline, need, sleptAt, result, drained, waiter>>
routeVars == <<req, status, body, fault, adapter, sent, prev>>
adapterVars == <<call, outcome>>
vars == <<now, limiterVars, threadVars, calls, granted, routeVars, adapterVars>>

\* ----------------------------------------------------------- RateLimiter
\* __init__: self.capacity = capacity or rate * 2   (rate is per second)
InitCapacity(r, c) == IF c = NoCapacity THEN r * 2 * TicksPerSecond ELSE c

RefilledNoCap(tok, elapsed, r, cap) == tok + elapsed * r
\* min(self.capacity, self.tokens + elapsed * self.rate), the exact value
Refilled(tok, elapsed, r, cap) == Min(cap, tok + elapsed * r)

\* the sides of Refilled(tok, elapsed, r, cap) the double assigned at line
\* 39 can lie on, rnd being the side of self.tokens before: adding 0.0
\* changes nothing, a sum beyond the capacity is replaced by the capacity,
\* a sum that equals it exactly can only be rounded below it, any other sum
\* is rounded either way.  The side is kept for whole numbers of tokens,
\* where it decides the test of line 42 now or after tokens were taken; of
\* any other count it decides nothing and is left at 0.
Roundings(tok, rnd, elapsed, r, cap) ==
  IF elapsed * r = 0 THEN {rnd}
  ELSE IF tok + elapsed * r > cap THEN {0}
  ELSE IF (tok + elapsed * r) % TokenUnit # 0 THEN {0}
  ELSE IF tok + elapsed * r = cap THEN {-1, 0}
  ELSE {-1, 0, 1}

HasTokenStrict(tok, rnd) == tok > TokenUnit
\* if self.tokens >= 1
HasToken(tok, rnd) == tok > TokenUnit \/ (tok = TokenUnit /\ rnd >= 0)

LockFreeAlways(holder) == TRUE
\* `with self.lock' can be entered
LockFree(holder) == holder = NoThread

\* the two sides of the test of line 49 are equal in exact arithmetic
AtDeadline(t_now, deficit, r, dl) == deficit = (dl - t_now) * r

PastDeadlineNoWait(t_now, deficit, r, dl, up) == t_now > dl
\* time.monotonic() + wait_time > deadline, wait_time = deficit / rate; `up'
\* is whether the doubles compare that way when the exact values are equal
PastDeadline(t_now, deficit, r, dl, up) ==
  \/ deficit > (dl - t_now) * r
  \/ AtDeadline(t_now, deficit, r, dl) /\ up

\* time.sleep(min(wait_time, 0.1)) entered at `since' is over at t_now
SleepOver(t_now, since, deficit, r) ==
  \/ t_now - since >= PollQuantum
  \/ (t_now - since) * r >= deficit

InitLimiter(r, c) ==
  /\ rate = r
  /\ capacity = InitCapacity(r, c)
  /\ tokens = InitCapacity(r, c)
  /\ rounding = 0
  /\ last_update = 0
  /\ lock = NoThread

InitThreads ==
  /\ pc = [t \in Threads |-> "idle"]
  /\ deadline = [t \in Threads |-> 0]
  /\ need = [t \in Threads |-> 0]
  /\ sleptAt = [t \in Threads |-> 0]
  /\ result = [t \in Threads |-> "none"]
  /\ drained = [t \in Threads |-> FALSE]
  /\ waiter = [t \in Threads |-> "none"]

\* the state a call with timeout `to' finds: no token and none owed for the
\* time since last_update, and one token takes longer than `to' to refill
DrainedAndSlow(to) ==
  /\ Refilled(tokens, now - last_update, rate, capacity) = 0
  /\ TokenUnit > to * rate

\* thread t is inside acquire
InAcquire(t) == pc[t] \in {"lock", "check", "take", "deadline", "sleep"}

\* the state a call of thread t with timeout `to' finds: no other call is
\* inside acquire, the bucket can hold a token but has none for it yet, and
\* `to' is at least twice the time in which what it lacks is refilled
LongWaiter(t, to) ==
  LET deficit ==
        TokenUnit - Refilled(tokens, now - last_update, rate, capacity)
  IN  /\ \A u \in Threads \ {t} : ~InAcquire(u)
      /\ capacity >= TokenUnit
      /\ 0 < deficit
      /\ 2 * deficit <= to * rate

\* acquire, line 33: deadline = time.monotonic() + timeout
Enter(t, to) ==
  /\ deadline' = [deadline EXCEPT ![t] = now + to]
  /\ drained' = [drained EXCEPT ![t] = DrainedAndSlow(to)]
  /\ result' = [result EXCEPT ![t] = "none"]
  /\ need' = [need EXCEPT ![t] = 0]
  /\ pc' = [pc EXCEPT ![t] = "lock"]

\* a thread calls acquire(timeout) on the limiter, for one of at most n
\* calls and with a timeout of tos
CallWithin(t, n, tos) ==
  /\ pc[t] = "idle"
  /\ calls < n
  /\ \E to \in tos : Enter(t, to)
  /\ calls' = calls + 1
  /\ UNCHANGED <<adapterVars, now, limiterVars, sleptAt, granted, routeVars>>

Call(t) ==
  /\ CallWithin(t, MaxCalls, Timeouts)
  /\ UNCHANGED waiter

\* a call of acquire among waiters: the call that takes the first token, a
\* waiter and the calls that come after it; the timeout is none or as long
\* as the waiter is followed
Arrive(t) ==
  /\ CallWithin(t, MaxArrivals + 2, {0, MaxWait})
  /\ waiter' = [waiter EXCEPT ![t] =
                  IF LongWaiter(t, deadline'[t] - now) THEN "waiting"
                  ELSE "none"]

\* lines 35-40: enter `with self.lock', read the clock, refill, set
\* last_update
Refill(t) ==
  /\ pc[t] = "lock"
  /\ LockFree(lock)
  /\ lock' = t
  /\ tokens' = Refilled(tokens, now - last_update, rate, capacity)
  /\ rounding' \in Roundings(tokens, rounding, now - last_update, rate,
                             capacity)
  /\ last_update' = now
  /\ pc' = [pc EXCEPT ![t] = "check"]
  /\ UNCHANGED <<adapterVars, now, rate, capacity, deadline, need, sleptAt, result,
                 drained, waiter, calls, granted, routeVars>>

\* line 42 (test) and, when it fails, line 47 and the release of the lock
Check(t) ==
  /\ pc[t] = "check"
  /\ IF HasToken(tokens, rounding)
       THEN /\ pc' = [pc EXCEPT ![t] = "take"]
            /\ UNCHANGED <<need, lock>>
       ELSE /\ need' = [need EXCEPT ![t] = TokenUnit - tokens]
            /\ lock' = IF lock = t THEN NoThread ELSE lock
            /\ pc' = [pc EXCEPT ![t] = "deadline"]
  /\ UNCHANGED <<adapterVars, now, rate, capacity, tokens, rounding, last_update,
                 deadline, sleptAt, result, drained, waiter, calls, granted,
                 routeVars>>

\* lines 43-44: self.tokens -= 1 (exact for a double of at least 1); return
\* True (releasing the lock)
Take(t) ==
  /\ pc[t] = "take"
  /\ tokens' = tokens - TokenUnit
  /\ lock' = IF lock = t THEN NoThread ELSE lock
  /\ result' = [result EXCEPT ![t] = "True"]
  /\ granted' = granted + 1
  /\ pc' = [pc EXCEPT ![t] = "ret"]
  /\ UNCHANGED <<adapterVars, now, rate, capacity, rounding, last_update, deadline,
                 need, sleptAt, drained, waiter, calls, routeVars>>

\* lines 49-52: return False past the deadline, else enter time.sleep
Deadline(t) ==
  /\ pc[t] = "deadline"
  /\ \E up \in BOOLEAN :
       IF PastDeadline(now, need[t], rate, deadline[t], up)
         THEN /\ result' = [result EXCEPT ![t] = "False"]
              /\ pc' = [pc EXCEPT ![t] = "ret"]
              /\ waiter' = [waiter EXCEPT ![t] =
                              IF /\ @ = "waiting"
                                 /\ AtDeadline(now, need[t], rate, deadline[t])
                                THEN "rounded"
                              ELSE @]
              /\ UNCHANGED sleptAt
         ELSE /\ sleptAt' = [sleptAt EXCEPT ![t] = now]
              /\ pc' = [pc EXCEPT ![t] = "sleep"]
              /\ UNCHANGED <<result, waiter>>
  /\ UNCHANGED <<adapterVars, now, limiterVars, deadline, need, drained, calls,
                 granted, routeVars>>

\* line 52 returns: back to the head of the while loop
Wake(t) ==
  /\ pc[t] = "sleep"
  /\ SleepOver(now, sleptAt[t], need[t], rate)
  /\ pc' = [pc EXCEPT ![t] = "lock"]
  /\ UNCHANGED <<adapterVars, now, limiterVars, deadline, need, sleptAt, result, drained, waiter,
                 calls, granted, routeVars>>

\* the caller has the return value; the locals of acquire are gone and the
\* thread is free for another call
Return(t) ==
  /\ pc[t] = "ret"
  /\ pc' = [pc EXCEPT ![t] = "idle"]
  /\ deadline' = [deadline EXCEPT ![t] = 0]
  /\ need' = [need EXCEPT ![t] = 0]
  /\ sleptAt' = [sleptAt EXCEPT ![t] = 0]
  /\ drained' = [drained EXCEPT ![t] = FALSE]
  /\ waiter' = [waiter EXCEPT ![t] = "none"]
  /\ result' = [result EXCEPT ![t] = "none"]
  /\ UNCHANGED <<adapterVars, now, limiterVars, calls, granted, routeVars>>

\* thread u is due to run: it is inside acquire and not in a time.sleep
\* that still has time to go
Runnable(u) ==
  /\ InAcquire(u)
  /\ pc[u] = "sleep" => SleepOver(now, sleptAt[u], need[u], rate)

\* the monotonic clock advances, whatever the threads are doing; a waiter
\* that is due to run is delayed by it
Advance(limit) ==
  /\ now < limit
  /\ now' = now + 1
  /\ waiter' = [u \in Threads |->
                  IF waiter[u] = "waiting" /\ Runnable(u)
                    THEN "delayed"
                  ELSE waiter[u]]
  /\ UNCHANGED <<limiterVars, pc, deadline, need, sleptAt, result, drained,
                 calls, granted, routeVars, adapterVars>>

Tick == Advance(MaxTime)
\* the clock of the runs that follow a request or a waiter
Pass == Advance(MaxWait)

\* ---------------------------------------------------------------- strings
\* A Python str is a sequence of one-character strings, of the characters
\* up to U+00FF.  The letters of that range str.lower changes, and what it
\* changes them to: A-Z, and U+00C0 to U+00DE without the multiplication
\* sign U+00D7.
UpperCase == <<"A", "B", "C", "D", "E", "F", "G", "H", "I", "J", "K", "L", "M",
               "N", "O", "P", "Q", "R", "S", "T", "U", "V", "W", "X", "Y", "Z",
               "À", "Á", "Â", "Ã", "Ä", "Å", "Æ", "Ç", "È", "É",
               "Ê", "Ë", "Ì", "Í", "Î", "Ï", "Ð", "Ñ", "Ò", "Ó",
               "Ô", "Õ", "Ö", "Ø", "Ù", "Ú", "Û", "Ü", "Ý", "Þ">>
LowerCase == <<"a", "b", "c", "d", "e", "f", "g", "h", "i", "j", "k", "l", "m",
               "n", "o", "p", "q", "r", "s", "t", "u", "v", "w", "x", "y", "z",
               "à", "á", "â", "ã", "ä", "å", "æ", "ç", "è", "é",
               "ê", "ë", "ì", "í", "î", "ï", "ð", "ñ", "ò", "ó",
               "ô", "õ", "ö", "ø", "ù", "ú", "û", "ü", "ý", "þ">>
Digits    == <<"0", "1", "2", "3", "4", "5", "6", "7", "8", "9">>

LowerChar(c) ==
  IF \E i \in 1..Len(UpperCase) : UpperCase[i] = c
    THEN LowerCase[CHOOSE i \in 1..Len(UpperCase) : UpperCase[i] = c]
    ELSE c

\* str.lower
Lower(s) == [i \in 1..Len(s) |-> LowerChar(s[i])]

\* str.endswith
EndsWith(s, suffix) ==
  /\ Len(s) >= Len(suffix)
  /\ SubSeq(s, Len(s) - Len(suffix) + 1, Len(s)) = suffix

IsDigit(c) == \E i \in 1..10 : Digits[i] = c

\* the vertical tab, U+000B, as the one character between the quotes
VerticalTab == ""

\* the ASCII characters int() skips around a literal: space, \t, \n,
\* \x0b, \f and \r
Whitespace == {" ", "\t", "\n", VerticalTab, "\f", "\r"}

RECURSIVE LStrip(_)
LStrip(s) ==
  IF s # <<>> /\ s[1] \in Whitespace THEN LStrip(Tail(s)) ELSE s

RECURSIVE RStrip(_)
RStrip(s) ==
  IF s # <<>> /\ s[Len(s)] \in Whitespace
    THEN RStrip(SubSeq(s, 1, Len(s) - 1))
    ELSE s

\* what int(s) parses after the surrounding whitespace and an optional sign
IntBody(s) ==
  LET b == RStrip(LStrip(s))
  IN  IF b # <<>> /\ b[1] \in {"-", "+"} THEN Tail(b) ELSE b

\* sys.get_int_max_str_digits(): the digits int() converts at most
MaxStrDigits == 4300

\* int(s) succeeds, for s of ASCII characters: surrounding whitespace, an
\* optional sign, then at most MaxStrDigits decimal digits with single
\* underscores between them
IsIntLiteral(s) ==
  LET ds == IntBody(s)
  IN  /\ Len(ds) > 0
      /\ Len(SelectSeq(ds, IsDigit)) <= MaxStrDigits
      /\ \A i \in 1..Len(ds) :
           \/ IsDigit(ds[i])
           \/ /\ ds[i] = "_"
              /\ 1 < i /\ i < Len(ds)
              /\ IsDigit(ds[i - 1]) /\ IsDigit(ds[i + 1])

RECURSIVE DigitsValue(_)
DigitsValue(ds) ==
  IF ds = <<>> THEN 0
  ELSE 10 * DigitsValue(SubSeq(ds, 1, Len(ds) - 1))
         + ((CHOOSE i \in 1..10 : Digits[i] = ds[Len(ds)]) - 1)

\* int(s), for s with IsIntLiteral(s)
IntOf(s) ==
  LET v == DigitsValue(SelectSeq(IntBody(s), IsDigit))
  IN  IF LStrip(s)[1] = "-" THEN 0 - v ELSE v

\* ------------------------------------------------------------------- URLs
\* A URL string is what the code reads of it: whether it is the empty
\* string (blank), urlparse(url).netloc, and the segments of urlparse(url).path
\* (the path split at "/", without the leading empty segment).  NoUrl is the
\* empty string, which line 138 treats like an absent argument.
NoUrl == [blank |-> TRUE, netloc |-> <<>>, path |-> <<>>]
Url(netloc, path) == [blank |-> FALSE, netloc |-> netloc, path |-> path]

ResyDomain == <<"r", "e", "s", "y", ".", "c", "o", "m">>
OpenTableHost ==
  <<"w", "w", "w", ".", "o", "p", "e", "n", "t", "a", "b", "l", "e", ".",
    "c", "o", "m">>

HasChar(s, c) == \E i \in 1..Len(s) : s[i] = c
\* s.find(c) + 1 and s.rfind(c) + 1: 0 when c is not in s
FirstIndex(s, c) ==
  IF HasChar(s, c) THEN CHOOSE i \in 1..Len(s) :
                          s[i] = c /\ \A j \in 1..(i - 1) : s[j] # c
  ELSE 0
LastIndex(s, c) ==
  IF HasChar(s, c) THEN CHOOSE i \in 1..Len(s) :
                          s[i] = c /\ \A j \in (i + 1)..Len(s) : s[j] # c
  ELSE 0
\* s.partition(c)[0] and s.partition(c)[2]
Before(s, c) ==
  IF HasChar(s, c) THEN SubSeq(s, 1, FirstIndex(s, c) - 1) ELSE s
After(s, c) ==
  IF HasChar(s, c) THEN SubSeq(s, FirstIndex(s, c) + 1, Len(s)) ELSE <<>>

\* s.split(c)
RECURSIVE Split(_, _)
Split(s, c) ==
  IF HasChar(s, c) THEN <<Before(s, c)>> \o Split(After(s, c), c)
  ELSE <<s>>

HexDigits == {"a", "b", "c", "d", "e", "f", "A", "B", "C", "D", "E", "F"}
IsHexDigit(c) == IsDigit(c) \/ c \in HexDigits

\* ipaddress.IPv4Address(s) succeeds: four decimal octets up to 255 without
\* leading zeros
IsIPv4(s) ==
  LET octets == Split(s, ".")
  IN  /\ Len(octets) = 4
      /\ \A k \in 1..4 :
           LET o == octets[k]
           IN  /\ Len(o) \in 1..3
               /\ \A i \in 1..Len(o) : IsDigit(o[i])
               /\ Len(o) > 1 => o[1] # "0"
               /\ DigitsValue(o) <= 255

\* ipaddress.IPv6Address(s) succeeds (_split_scope_id, _ip_int_from_string)
IsIPv6(s) ==
  LET addr   == Before(s, "%")
      scope  == After(s, "%")
      raw    == Split(addr, ":")
      v4tail == HasChar(raw[Len(raw)], ".")
      \* an IPv4 tail stands for two hextets
      parts  == IF v4tail
                  THEN SubSeq(raw, 1, Len(raw) - 1) \o <<<<"0">>, <<"0">>>>
                  ELSE raw
      n      == Len(parts)
      skips  == {i \in 2..(n - 1) : parts[i] = <<>>}
      IsHextet(h) == Len(h) \in 1..4 /\ \A i \in 1..Len(h) : IsHexDigit(h[i])
  IN  /\ ~HasChar(s, "/")
      /\ HasChar(s, "%") => (scope # <<>> /\ ~HasChar(scope, "%"))
      /\ Len(raw) >= 3
      /\ v4tail => IsIPv4(raw[Len(raw)])
      /\ n <= 9
      /\ Cardinality(skips) <= 1
      /\ IF skips = {}
           THEN n = 8 /\ \A i \in 1..n : IsHextet(parts[i])
           ELSE LET k  == CHOOSE i \in skips : TRUE
                    hi == IF parts[1] = <<>> THEN k - 2 ELSE k - 1
                    lo == IF parts[n] = <<>> THEN n - k - 1 ELSE n - k
                IN  /\ parts[1] = <<>> => hi = 0
                    /\ parts[n] = <<>> => lo = 0
                    /\ 8 - (hi + lo) >= 1
                    /\ \A i \in 1..hi : IsHextet(parts[i])
                    /\ \A i \in (n - lo + 1)..n : IsHextet(parts[i])

\* urllib.parse._check_bracketed_host does not raise: an IPvFuture literal
\* (v, hex digits, a dot, something) or an IPv6 address
BracketedHostOk(h) ==
  IF h # <<>> /\ h[1] = "v"
    THEN LET hex == Before(Tail(h), ".")
         IN  /\ HasChar(h, ".")
             /\ hex # <<>> /\ \A i \in 1..Len(hex) : IsHexDigit(hex[i])
             /\ After(Tail(h), ".") # <<>>
    ELSE IsIPv6(h)

\* urlparse(url) raises ValueError: square brackets that do not pair, or
\* that do not hold an IP literal
InvalidNetloc(netloc) ==
  \/ HasChar(netloc, "[") # HasChar(netloc, "]")
  \/ /\ HasChar(netloc, "[")
     /\ ~BracketedHostOk(Before(After(netloc, "["), "]"))

\* urlparse(url).hostname: the network location without userinfo, port and
\* brackets, in lower case up to a "%" zone; None (here <<>>) when that is
\* empty
Hostname(url) ==
  LET hostinfo == SubSeq(url.netloc, LastIndex(url.netloc, "@") + 1,
                         Len(url.netloc))
      host == IF HasChar(hostinfo, "[")
                THEN Before(After(hostinfo, "["), "]")
                ELSE Before(hostinfo, ":")
  IN  IF HasChar(host, "%")
        THEN Lower(Before(host, "%")) \o <<"%">> \o After(host, "%")
        ELSE Lower(host)

\* re.match("/cities/([^/]*)/(venues/)?([^/]*)/?", url.path) is not None
VenuePathMatches(path) == Len(path) >= 3 /\ path[1] = "cities"

\* line 142: f"https://www.opentable.com/restref/client/?rid={opentable_id}"
OpenTableUrlFromId(id) == Url(OpenTableHost, <<"restref", "client", "">>)

\* ---------------------------------------------------------------- queries
\* request.args.get(name): None when the query string has no such
\* argument, else its text
NoArg  == [given |-> FALSE, text |-> ""]
Arg(s) == [given |-> TRUE, text |-> s]

NoReq == [date |-> NoArg, party_size |-> [given |-> FALSE, text |-> <<>>],
          platform_url |-> NoUrl,
          opentable_id |-> NoArg, absent |-> TRUE]

Query(d, p, u, i) ==
  [date |-> d, party_size |-> p, platform_url |-> u, opentable_id |-> i,
   absent |-> FALSE]

VenuePath    == <<"cities", "new-york-ny", "venues", "example">>
ResyUrl      == Url(ResyDomain, VenuePath)
\* https://Resy.COM:443/cities/new-york-ny/venues/example
ResyUpperUrl == Url(<<"R", "e", "s", "y", ".", "C", "O", "M", ":", "4", "4",
                      "3">>, VenuePath)
ResyRootUrl  == Url(ResyDomain, <<"">>)
\* https://resy.com@tock.com/example
OtherUrl     == Url(<<"r", "e", "s", "y", ".", "c", "o", "m", "@", "t", "o",
                      "c", "k", ".", "c", "o", "m">>, <<"example">>)
\* https://[resy.com/cities/new-york-ny/venues/example
BracketUrl   == Url(<<"[">> \o ResyDomain, VenuePath)
\* https://
SchemeOnlyUrl == Url(<<>>, <<>>)

GoodDate == "2025-08-22"
BadDate  == "22/08/2025"
Two      == <<"2">>
\* an argument whose text is the word None
NoneText == "None"
\* party_size absent from the query string
NoParty  == [given |-> FALSE, text |-> <<>>]

\* the queries sent to /api/availability
Queries ==
  { Query(Arg(GoodDate), Arg(Two), ResyUrl, NoArg),
    Query(Arg(GoodDate), NoParty, ResyUpperUrl, NoArg),
    Query(Arg(GoodDate), Arg(Two), NoUrl, Arg("1084915")),
    Query(Arg(GoodDate), Arg(Two), OtherUrl, NoArg),
    Query(Arg(GoodDate), Arg(Two), BracketUrl, NoArg),
    Query(Arg(GoodDate), Arg(<<VerticalTab, "2">>), SchemeOnlyUrl, Arg("7")),
    Query(Arg(GoodDate), Arg(Two), NoUrl, NoArg),
    Query(Arg(GoodDate), Arg(Two), NoUrl, Arg("")),
    Query(NoArg, Arg(Two), ResyUrl, NoArg),
    Query(Arg(""), Arg(Two), ResyUrl, NoArg),
    Query(Arg(NoneText), Arg(Two), NoUrl, Arg(NoneText)),
    Query(Arg(BadDate), Arg(Two), ResyUrl, NoArg),
    Query(Arg(GoodDate), Arg(<<"a", "b", "c">>), ResyUrl, NoArg),
    Query(Arg(GoodDate), Arg(<<"0">>), ResyRootUrl, NoArg) }

\* `not arg' of an optional query argument: it is None or the empty string
Falsy(arg) == ~arg.given \/ arg.text = ""

\* line 132: request.args.get("party_size", "2")
PartySize(rq) == IF rq.party_size.given THEN rq.party_size.text ELSE Two

\* lines 138-144: the URL to check (NoUrl: neither argument given)
UrlOf(rq) ==
  IF ~rq.platform_url.blank THEN rq.platform_url
  ELSE IF ~Falsy(rq.opentable_id)
    THEN OpenTableUrlFromId(rq.opentable_id.text)
  ELSE NoUrl

\* check_availability.find_availability, lines 9-14, and get_venue_id, lines
\* 39-41: the adapter called, or the exception raised before any call
Dispatch(url) ==
  IF InvalidNetloc(url.netloc) THEN [adapter |-> "none", fault |-> "bad_url"]
  ELSE IF Hostname(url) = <<>>
    THEN [adapter |-> "none", fault |-> "no_hostname"]
  ELSE IF EndsWith(Hostname(url), ResyDomain)
    THEN IF VenuePathMatches(url.path)
           THEN [adapter |-> "resy", fault |-> "none"]
           ELSE [adapter |-> "resy", fault |-> "bad_path"]
  ELSE [adapter |-> "none", fault |-> "unsupported"]

InitRoute ==
  /\ req = [t \in Threads |-> NoReq]
  /\ status = [t \in Threads |-> 0]
  /\ body = [t \in Threads |-> "none"]
  /\ fault = [t \in Threads |-> "none"]
  /\ adapter = [t \in Threads |-> "none"]
  /\ sent = [t \in Threads |-> 0]
  /\ prev = [fault |-> "none", status |-> 0]

\* the status each return of check_availability_route carries: lines 135 and
\* 144 (400), 148 (429), 159 (200), and 162 (500) for any exception
StatusOf(cause) ==
  IF cause = "none" THEN 200
  ELSE IF cause \in {"missing_date", "missing_ref"} THEN 400
  ELSE IF cause = "acquire_timeout" THEN 429
  ELSE 500

\* return jsonify({"slots": ...}) or jsonify({"error": ...}), status
Respond(t, cause) ==
  /\ status' = [status EXCEPT ![t] = StatusOf(cause)]
  /\ body' = [body EXCEPT ![t] = IF cause = "none" THEN "slots" ELSE "error"]
  /\ fault' = [fault EXCEPT ![t] = cause]
  /\ pc' = [pc EXCEPT ![t] = "resp"]

\* check_availability_route, lines 129-147: read the query, reject a missing
\* date or reference, else call api_rate_limiter.acquire(timeout=30)
Route(t) ==
  /\ pc[t] = "idle"
  /\ calls < MaxRequests
  /\ calls' = calls + 1
  /\ \E rq \in Queries :
       /\ req' = [req EXCEPT ![t] = rq]
       /\ IF Falsy(rq.date)
            THEN /\ Respond(t, "missing_date")
                 /\ UNCHANGED <<deadline, need, result, drained>>
          ELSE IF UrlOf(rq) = NoUrl
            THEN /\ Respond(t, "missing_ref")
                 /\ UNCHANGED <<deadline, need, result, drained>>
          ELSE /\ Enter(t, GatewayTimeout)
               /\ UNCHANGED <<status, body, fault>>
  /\ UNCHANGED <<adapterVars, now, limiterVars, sleptAt, waiter, granted, adapter,
                 sent, prev>>

\* lines 147-151 and 160-162, after acquire has returned: 429 on False, else
\* int(party_size) and find_availability up to its first upstream call, the
\* GET /3/venue of resy.py line 43, in which the thread then blocks
AfterAcquire(t) ==
  /\ pc[t] = "ret"
  /\ deadline' = [deadline EXCEPT ![t] = 0]
  /\ need' = [need EXCEPT ![t] = 0]
  /\ sleptAt' = [sleptAt EXCEPT ![t] = 0]
  /\ drained' = [drained EXCEPT ![t] = FALSE]
  /\ waiter' = [waiter EXCEPT ![t] = "none"]
  /\ IF result[t] = "False"
       THEN /\ Respond(t, "acquire_timeout")
            /\ UNCHANGED <<adapter, sent>>
     ELSE IF ~IsIntLiteral(PartySize(req[t]))
       THEN /\ Respond(t, "bad_party_size")
            /\ UNCHANGED <<adapter, sent>>
     ELSE LET d == Dispatch(UrlOf(req[t]))
          IN  /\ adapter' = [adapter EXCEPT ![t] = d.adapter]
              /\ IF d.fault # "none"
                   THEN /\ Respond(t, d.fault)
                        /\ UNCHANGED sent
                   ELSE /\ pc' = [pc EXCEPT ![t] = "venue"]
                        /\ sent' = [sent EXCEPT ![t] = @ + 1]
                        /\ UNCHANGED <<status, body, fault>>
  /\ UNCHANGED <<adapterVars, now, limiterVars, result, calls, granted, req, prev>>

\* resy.get_venue_id, lines 43-45: the answer to GET /3/venue arrives; with
\* a venue id the thread goes on to the POST /4/find of line 20 and blocks
\* in it
VenueLookup(t) ==
  /\ pc[t] = "venue"
  /\ \E answer \in {"ok", "upstream_request", "upstream_parse"} :
       IF answer = "ok"
         THEN /\ pc' = [pc EXCEPT ![t] = "find"]
              /\ sent' = [sent EXCEPT ![t] = @ + 1]
              /\ UNCHANGED <<status, body, fault>>
         ELSE /\ Respond(t, answer)
              /\ UNCHANGED sent
  /\ UNCHANGED <<adapterVars, now, limiterVars, deadline, need, sleptAt, result, drained, waiter,
                 calls, granted, req, adapter, prev>>

\* resy.find_availability_resy_venue_id, lines 28-36, and the route's lines
\* 152-159: the answer to POST /4/find arrives, the slots of the response
Find(t) ==
  /\ pc[t] = "find"
  /\ UNCHANGED sent
  /\ \E answer \in {"slots", "no_venues", "upstream_request",
                    "upstream_parse"} :
       IF answer \in {"slots", "no_venues"}
         THEN Respond(t, "none")
         ELSE Respond(t, answer)
  /\ UNCHANGED <<adapterVars, now, limiterVars, deadline, need, sleptAt, result, drained, waiter,
                 calls, granted, req, adapter, prev>>

\* requests' timeout=None, the default of requests.request: wait for the
\* answer without limit
NoTimeout == -1
\* timeout=5 of the two OpenTable requests, in ticks
OpenTableTimeout == 5 * TicksPerSecond

\* the timeout argument of each adapter network call
NetworkTimeout(request) ==
  CASE request = "resy_venue"      -> NoTimeout
    [] request = "resy_find"       -> NoTimeout
    [] request = "opentable_page"  -> OpenTableTimeout
    [] request = "opentable_query" -> OpenTableTimeout

\* the network call thread t is blocked in
InFlight(t) ==
  IF pc[t] = "venue" THEN "resy_venue"
  ELSE IF pc[t] = "find" THEN "resy_find"
  ELSE "none"

\* the response is sent; the thread is free for another request
Finish(t) ==
  /\ pc[t] = "resp"
  /\ pc' = [pc EXCEPT ![t] = "idle"]
  /\ result' = [result EXCEPT ![t] = "none"]
  /\ req' = [req EXCEPT ![t] = NoReq]
  /\ status' = [status EXCEPT ![t] = 0]
  /\ body' = [body EXCEPT ![t] = "none"]
  /\ fault' = [fault EXCEPT ![t] = "none"]
  /\ adapter' = [adapter EXCEPT ![t] = "none"]
  /\ sent' = [sent EXCEPT ![t] = 0]
  /\ prev' = [fault |-> fault[t], status |-> status[t]]
  /\ UNCHANGED <<adapterVars, now, limiterVars, deadline, need, sleptAt, drained, waiter, calls,
                 granted>>

\* --------------------------------------------------------------- adapters
\* A datetime is a day (proleptic Gregorian ordinal) and a minute of that
\* day; a date string is one of the three below.
NextDate    == "2025-08-23"
MinutesPerDay == 1440
AnchorMinute  == 1080

\* datetime.date.fromisoformat(d) succeeds
IsIsoDate(d) == d \in {GoodDate, NextDate}

\* datetime.date.fromisoformat(d).toordinal()
DateOrdinal(d) == IF d = GoodDate THEN 739485 ELSE 739486

AddMinutesSameDay(dt, m) ==
  [day |-> dt.day, minute |-> (dt.minute + m) % MinutesPerDay]
\* dt + datetime.timedelta(minutes=m)
AddMinutes(dt, m) ==
  [day |-> dt.day + ((dt.minute + m) \div MinutesPerDay),
   minute |-> (dt.minute + m) % MinutesPerDay]

\* datetime.datetime.fromisoformat(f"{date}T18:00:00")
BaseTime(date) == [day |-> DateOrdinal(date), minute |-> AnchorMinute]

\* reservation_data.ReservationSlot
ReservationSlot(time, seating_type) ==
  [time |-> time, seating_type |-> seating_type]

\* an OpenTable slot dict: the keys it has and their values
OtSlot(keys, available, offset, type) ==
  [keys |-> keys, isAvailable |-> available, timeOffsetMinutes |-> offset,
   type |-> type]

AllKeys == {"isAvailable", "timeOffsetMinutes", "type"}
OtSlotChoices ==
  { OtSlot(AllKeys, TRUE, -60, "Patio"),
    OtSlot(AllKeys, FALSE, 0, "Standard"),
    OtSlot({"timeOffsetMinutes", "type"}, FALSE, 30, "Standard"),
    OtSlot(AllKeys, TRUE, -1080, "Experience"),
    OtSlot(AllKeys, TRUE, 359, "Bar"),
    OtSlot(AllKeys, TRUE, 360, "Standard"),
    OtSlot({"isAvailable", "timeOffsetMinutes"}, TRUE, 600, ""),
    OtSlot({"isAvailable", "type"}, TRUE, 0, "Standard") }

ParseOpenTableSlotNoFilter(slot, base_time) ==
  IF "timeOffsetMinutes" \notin slot.keys THEN [kind |-> "KeyError"]
  ELSE [kind |-> "slot",
        slot |-> ReservationSlot(
                   AddMinutes(base_time, slot.timeOffsetMinutes),
                   IF "type" \in slot.keys THEN slot.type ELSE "Standard")]
\* opentable.parse_opentable_slot: None, a ReservationSlot, or KeyError
ParseOpenTableSlot(slot, base_time) ==
  IF ~("isAvailable" \in slot.keys /\ slot.isAvailable)
    THEN [kind |-> "None"]
  ELSE IF "timeOffsetMinutes" \notin slot.keys THEN [kind |-> "KeyError"]
  ELSE [kind |-> "slot",
        slot |-> ReservationSlot(
                   AddMinutes(base_time, slot.timeOffsetMinutes),
                   IF "type" \in slot.keys THEN slot.type ELSE "Standard")]

Raised(error) == [error |-> error, slots |-> <<>>]
\* reservation_data.RestaurantResult
RestaurantResult(slots) == [error |-> "none", slots |-> slots]

\* opentable.py lines 76-80: the loop over raw_slots, from parsed_slots
RECURSIVE ParseOpenTableSlots(_, _, _)
ParseOpenTableSlots(raw_slots, base_time, parsed_slots) ==
  IF raw_slots = <<>> THEN RestaurantResult(parsed_slots)
  ELSE LET parsed == ParseOpenTableSlot(Head(raw_slots), base_time)
       IN  IF parsed.kind = "KeyError" THEN Raised("KeyError")
           ELSE ParseOpenTableSlots(
                  Tail(raw_slots), base_time,
                  IF parsed.kind = "None" THEN parsed_slots
                  ELSE Append(parsed_slots, parsed.slot))

\* opentable.find_availability_opentable_from_id, lines 60-82, on the
\* response: unreachable (requests raises), no_data (line 68 fails),
\* malformed (no availability, line 73 fails), no_days (availabilityDays
\* == []), or days with slots
OpenTableFromId(date, response) ==
  IF response.shape = "unreachable" THEN Raised("RequestException")
  ELSE IF response.shape = "no_data" THEN Raised("KeyError")
  ELSE IF ~IsIsoDate(date) THEN Raised("ValueError")
  ELSE IF response.shape = "malformed" THEN Raised("KeyError")
  ELSE IF response.shape = "no_days" THEN RestaurantResult(<<>>)
  ELSE ParseOpenTableSlots(response.slots, BaseTime(date), <<>>)

\* a Resy slot dict: slot["date"]["start"] as date string, hour and minute,
\* and slot["config"]["type"]; keys lists the keys that are there
ResySlot(keys, d, hour, minute, type) ==
  [keys |-> keys, start |-> [date |-> d, hour |-> hour, minute |-> minute],
   type |-> type]

ResyKeys == {"date", "start", "config", "type"}
ResySlotChoices ==
  { ResySlot(ResyKeys, GoodDate, 17, 0, "Dining Room"),
    ResySlot(ResyKeys, GoodDate, 21, 30, "Patio"),
    ResySlot(ResyKeys, NextDate, 0, 30, "Bar"),
    ResySlot(ResyKeys, BadDate, 17, 0, "Bar"),
    ResySlot({"date", "start"}, GoodDate, 18, 0, ""),
    ResySlot({"date", "start", "config"}, GoodDate, 19, 0, "") }

\* datetime.datetime.fromisoformat(start), for a start with an ISO date
StartTime(start) ==
  [day |-> DateOrdinal(start.date), minute |-> start.hour * 60 + start.minute]

\* resy.parse_resy_slot: a ReservationSlot, KeyError or ValueError
ParseResySlot(slot) ==
  IF ~({"date", "start"} \subseteq slot.keys) THEN [kind |-> "KeyError"]
  ELSE IF ~IsIsoDate(slot.start.date) THEN [kind |-> "ValueError"]
  ELSE IF ~({"config", "type"} \subseteq slot.keys) THEN [kind |-> "KeyError"]
  ELSE [kind |-> "slot",
        slot |-> ReservationSlot(StartTime(slot.start), slot.type)]

\* resy.py line 34: [parse_resy_slot(s) for s in venue_results["slots"]]
RECURSIVE ParseResySlots(_, _)
ParseResySlots(raw_slots, parsed_slots) ==
  IF raw_slots = <<>> THEN RestaurantResult(parsed_slots)
  ELSE LET parsed == ParseResySlot(Head(raw_slots))
       IN  IF parsed.kind # "slot" THEN Raised(parsed.kind)
           ELSE ParseResySlots(Tail(raw_slots),
                               Append(parsed_slots, parsed.slot))

\* find_availability_resy_venue_id with data.get(...) defaults in place of
\* the subscripts of lines 29 and 34
ResyVenueIdLenient(date, response) ==
  IF response.shape = "unreachable" THEN Raised("RequestException")
  ELSE IF response.shape \in {"malformed", "no_slots_key", "no_venues"}
    THEN RestaurantResult(<<>>)
  ELSE ParseResySlots(response.slots, <<>>)

\* resy.find_availability_resy_venue_id, lines 20-36, on the response:
\* unreachable, malformed (no results.venues, line 29), no_venues
\* (venues == [], lines 30-31), no_slots_key (a first venue without "slots",
\* line 34), or a first venue with slots
ResyVenueId(date, response) ==
  IF response.shape = "unreachable" THEN Raised("RequestException")
  ELSE IF response.shape = "malformed" THEN Raised("KeyError")
  ELSE IF response.shape = "no_venues" THEN RestaurantResult(<<>>)
  ELSE IF response.shape = "no_slots_key" THEN Raised("KeyError")
  ELSE ParseResySlots(response.slots, <<>>)

SeqsUpTo(S, n) == UNION {[1..k -> S] : k \in 0..n}

NoCall == [platform |-> "none", date |-> "",
           response |-> [shape |-> "none", slots |-> <<>>]]
NotRun == [error |-> "not run", slots |-> <<>>]

\* the calls studied: a platform, a queried date and an upstream response
AdapterCalls ==
  [platform : {"opentable"}, date : {GoodDate, NextDate, BadDate},
   response : [shape : {"days"}, slots : SeqsUpTo(OtSlotChoices, MaxSlots)]
              \cup [shape : {"no_days", "no_data", "malformed",
                            "unreachable"},
                    slots : {<<>>}]]
  \cup
  [platform : {"resy"}, date : {GoodDate, NextDate, BadDate},
   response : [shape : {"venue"}, slots : SeqsUpTo(ResySlotChoices, MaxSlots)]
              \cup [shape : {"no_venues", "malformed", "no_slots_key",
                            "unreachable"},
                    slots : {<<>>}]]

NoAdapterCall ==
  /\ call = NoCall
  /\ outcome = NotRun

\* find_availability_opentable_from_id returns or raises
OpenTableCall ==
  /\ call.platform = "opentable"
  /\ outcome = NotRun
  /\ outcome' = OpenTableFromId(call.date, call.response)
  /\ UNCHANGED <<call, now, limiterVars, threadVars, calls, granted,
                 routeVars>>

\* find_availability_resy_venue_id returns or raises
ResyCall ==
  /\ call.platform = "resy"
  /\ outcome = NotRun
  /\ outcome' = ResyVenueId(call.date, call.response)
  /\ UNCHANGED <<call, now, limiterVars, threadVars, calls, granted,
                 routeVars>>

InitAdapters ==
  /\ now = 0
  /\ InitLimiter(RATE_LIMIT_RPS, NoCapacity)
  /\ InitThreads
  /\ InitRoute
  /\ calls = 0
  /\ granted = 0
  /\ call \in AdapterCalls
  /\ outcome = NotRun

NextAdapters == OpenTableCall \/ ResyCall

SpecAdapters == InitAdapters /\ [][NextAdapters]_vars

AcquireStep(t) ==
  \/ Refill(t) \/ Check(t) \/ Take(t) \/ Deadline(t) \/ Wake(t)

Init ==
  /\ now = 0
  /\ \E r \in Rates, c \in CapacityArgs : InitLimiter(r, c)
  /\ InitThreads
  /\ InitRoute
  /\ NoAdapterCall
  /\ calls = 0
  /\ granted = 0

Next ==
  \/ \E t \in Threads : Call(t)
  \/ \E t \in Threads : AcquireStep(t)
  \/ \E t \in Threads : Return(t)
  \/ Tick

Spec == Init /\ [][Next]_vars

\* a thread that can take its next step inside acquire again and again
\* takes it in the end: the interpreter switches threads every few
\* milliseconds, time.sleep returns, and a thread blocked in `with
\* self.lock' gets the lock, every holder releasing it before it sleeps or
\* returns; nothing is assumed of the clock or of new calls
InitFair ==
  /\ now = 0
  /\ InitLimiter(RATE_LIMIT_RPS, TokenUnit)
  /\ InitThreads
  /\ InitRoute
  /\ NoAdapterCall
  /\ calls = 0
  /\ granted = 0

CallNow(t) ==
  /\ CallWithin(t, MaxCalls, {0})
  /\ UNCHANGED waiter

NextFair ==
  \/ \E t \in Threads : CallNow(t)
  \/ \E t \in Threads : AcquireStep(t)
  \/ \E t \in Threads : Return(t)
  \/ Tick

SpecFair ==
  /\ InitFair /\ [][NextFair]_vars
  /\ \A t \in Threads : SF_vars(AcquireStep(t))

\* RateLimiter(rate=RATE_LIMIT_RPS, capacity=1): the default rate and a
\* bucket of one token
InitWaiters ==
  /\ now = 0
  /\ InitLimiter(RATE_LIMIT_RPS, TokenUnit)
  /\ InitThreads
  /\ InitRoute
  /\ NoAdapterCall
  /\ calls = 0
  /\ granted = 0

NextWaiters ==
  \/ \E t \in Threads : Arrive(t)
  \/ \E t \in Threads : AcquireStep(t)
  \/ \E t \in Threads : Return(t)
  \/ Pass

SpecWaiters == InitWaiters /\ [][NextWaiters]_vars

\* line 56: api_rate_limiter = RateLimiter(rate=RATE_LIMIT_RPS)
InitGateway ==
  /\ now = 0
  /\ \E r \in Rates : InitLimiter(r, NoCapacity)
  /\ InitThreads
  /\ InitRoute
  /\ NoAdapterCall
  /\ calls = 0
  /\ granted = 0

NextGateway ==
  \/ \E t \in Workers : Route(t)
  \/ \E t \in Workers : AcquireStep(t)
  \/ \E t \in Workers : AfterAcquire(t)
  \/ \E t \in Workers : VenueLookup(t)
  \/ \E t \in Workers : Find(t)
  \/ \E t \in Workers : Finish(t)
  \/ Pass

SpecGateway == InitGateway /\ [][NextGateway]_vars

\* ----------------------------------------------------------------- claims
InCritical(t) == pc[t] \in {"check", "take"}

\* C1: the token count stays within [0, capacity] in every state, from
\* construction on, whatever the interleaving of acquire calls and time; the
\* stored double is rounded neither below 0 nor above the capacity.
C1_TokensInRange ==
  /\ 0 <= tokens /\ tokens <= capacity
  /\ tokens = 0 => rounding >= 0
  /\ tokens = capacity => rounding <= 0

\* the first acquire came after the bucket was full for a while: its refill
\* was cut at the capacity and its token taken from there
C1_Witness ==
  /\ capacity = TokenUnit /\ calls = 1 /\ granted = 1
  /\ last_update > 0 /\ tokens = capacity - TokenUnit

\* C2: an attempt refills to min(capacity, tokens + elapsed * rate) and sets
\* last_update to now; it succeeds iff the refilled count, as stored, is at
\* least one token; success removes exactly one token, failure removes
\* nothing; the count is not touched by anyone else between the refill and
\* the outcome.
C2_TokenBucket ==
  [][\A t \in Threads :
      /\ (pc[t] = "lock" /\ pc'[t] # "lock") =>
            /\ LET sum == tokens + (now - last_update) * rate
               IN /\ tokens' = IF sum <= capacity THEN sum ELSE capacity
                  /\ sum > capacity => rounding' = 0
                  /\ sum = tokens => rounding' = rounding
            /\ last_update' = now
            /\ pc'[t] = "check"
      /\ (pc[t] = "check" /\ pc'[t] # "check") =>
            /\ tokens' = tokens /\ rounding' = rounding
            /\ (pc'[t] = "take") <=>
                 (tokens > TokenUnit \/ (tokens = TokenUnit /\ rounding >= 0))
            /\ (pc'[t] = "deadline") <=>
                 (tokens < TokenUnit \/ (tokens = TokenUnit /\ rounding < 0))
      /\ (pc[t] = "take" /\ pc'[t] # "take") =>
            /\ tokens' = tokens - TokenUnit /\ rounding' = rounding
            /\ result'[t] = "True"
      /\ (result'[t] = "True" /\ result[t] # "True") => pc[t] = "take"
      /\ (result'[t] = "False" /\ result[t] # "False") =>
            /\ pc[t] = "deadline"
            /\ tokens' = tokens /\ rounding' = rounding
      /\ (InCritical(t) /\ pc'[t] = pc[t]) =>
            /\ tokens' = tokens /\ rounding' = rounding
            /\ last_update' = last_update
     ]_vars

\* an attempt that found exactly one token took it, and a later attempt of
\* the other thread found none and failed
C2_Witness ==
  \E t, u \in Threads :
    /\ result[t] = "True" /\ result[u] = "False"
    /\ tokens < TokenUnit /\ last_update > 0

\* C4: the critical section is held by one thread at a time and the number
\* of successful acquires up to time T is at most capacity + rate * T.
C4_NoDoubleGrant ==
  /\ \A t, u \in Threads : (InCritical(t) /\ InCritical(u)) => t = u
  /\ granted * TokenUnit <= capacity + rate * now

\* two threads after the last token: one is about to take it, the other
\* waits for the lock
C4_Witness ==
  \E t, u \in Threads :
    /\ pc[t] = "take" /\ pc[u] = "lock"
    /\ tokens < 2 * TokenUnit /\ granted > 0

\* or returns True only with the clock past its deadline
C5_NoSleep ==
  \A t \in Threads : drained[t] =>
    /\ pc[t] # "sleep"
    /\ (pc[t] = "take" \/ result[t] = "True") => now > deadline[t]

\* such a call polls once: each of its steps leads on to its return
C5_PollsOnce ==
  \A t \in Threads : (drained[t] /\ pc'[t] # pc[t]) =>
    \/ pc[t] = "lock" /\ pc'[t] = "check"
    \/ pc[t] = "check" /\ pc'[t] \in {"take", "deadline"}
    \/ pc[t] \in {"take", "deadline"} /\ pc'[t] = "ret"
    \/ pc[t] = "ret" /\ pc'[t] = "idle"

\* the platform domains of the dispatcher's adapters
OpenTableDomain == SubSeq(OpenTableHost, 5, Len(OpenTableHost))

\* the request of thread t went through find_availability
Dispatched(t) ==
  \/ pc[t] \in {"venue", "find"}
  \/ /\ pc[t] = "resp"
     /\ fault[t] \notin {"missing_date", "missing_ref", "acquire_timeout",
                         "bad_party_size"}

\* C3: every upstream call of a request is covered by a token of its own:
\* a request never has more upstream calls than successful acquisitions, and
\* none at all unless its acquire returned True.
C3_OneTokenPerCall ==
  \A t \in Threads : sent[t] <= (IF result[t] = "True" THEN 1 ELSE 0)

\* C6: a reference is routed to an adapter exactly when its lower-cased
\* hostname ends with the adapter's domain (Resy, OpenTable); a reference
\* with another host or none ends in the unsupported-platform error.
C6_Routing ==
  \A t \in Threads : Dispatched(t) =>
    LET h == Hostname(UrlOf(req[t]))
    IN  /\ (adapter[t] = "resy") <=> EndsWith(h, ResyDomain)
        /\ (adapter[t] = "opentable") <=> EndsWith(h, OpenTableDomain)
        /\ (~EndsWith(h, ResyDomain) /\ ~EndsWith(h, OpenTableDomain)) =>
             (pc[t] = "resp" /\ fault[t] = "unsupported" /\ status[t] # 200)

\* a query the gateway is to accept: an ISO calendar date and a party size
\* that is present and a positive integer
ValidQuery(rq) ==
  /\ rq.date = Arg(GoodDate)
  /\ rq.party_size.given
  /\ IsIntLiteral(rq.party_size.text)
  /\ IntOf(rq.party_size.text) > 0

\* C7: a request whose date or party size is missing or malformed is
\* answered 400 without a call of acquire, of the dispatcher or upstream.
C7_ValidateFirst ==
  \A t \in Threads : (~req[t].absent /\ ~ValidQuery(req[t])) =>
    /\ pc[t] = "resp"
    /\ status[t] = 400
    /\ result[t] = "none"
    /\ adapter[t] = "none"
    /\ sent[t] = 0

\* the error kind of the taxonomy a failure cause belongs to
Kind(cause) ==
  CASE cause \in {"missing_date", "missing_ref", "bad_party_size", "bad_url"}
         -> "InvalidInput"
    [] cause = "acquire_timeout" -> "RateLimited"
    [] cause \in {"unsupported", "no_hostname", "bad_path"}
         -> "UnsupportedPlatform"
    [] cause = "upstream_parse" -> "UpstreamParseError"
    [] cause = "upstream_request" -> "UpstreamRequestError"
    [] OTHER -> "none"

\* C8 as stated: failures of different error kinds never get the same
\* status, a rate-limit timeout has a status of its own, and every failure
\* carries an {error} body.
C8_DistinctStatuses ==
  \A t \in Threads : (pc[t] = "resp" /\ status[t] # 200) =>
    /\ body[t] = "error"
    /\ (prev.status \notin {0, 200} /\ Kind(prev.fault) # Kind(fault[t]))
         => prev.status # status[t]

\* the call has returned a RestaurantResult
Returned == outcome.error = "none" /\ call.platform # "none"

\* C9: every slot of a returned result lies on the queried date.
C9_SlotsOnQueriedDate ==
  Returned =>
    \A k \in 1..Len(outcome.slots) :
      outcome.slots[k].time.day = DateOrdinal(call.date)

\* the upstream slots flagged available, by position
AvailableAt(raw) ==
  {i \in 1..Len(raw) : "isAvailable" \in raw[i].keys /\ raw[i].isAvailable}

\* the position of the k-th available upstream slot
NthAvailable(raw, k) ==
  CHOOSE i \in AvailableAt(raw) :
    Cardinality({j \in AvailableAt(raw) : j < i}) = k - 1

\* C10: a result of the graph-API adapter has one slot per upstream slot
\* flagged available, in upstream order, at 18:00 of the queried date plus
\* the slot's offset and with the slot's own type label; slots not flagged
\* available leave no trace.
C10_OpenTableNormalization ==
  (Returned /\ call.platform = "opentable") =>
    LET raw == call.response.slots
    IN  /\ Len(outcome.slots) = Cardinality(AvailableAt(raw))
        /\ \A k \in 1..Len(outcome.slots) :
             LET up == raw[NthAvailable(raw, k)]
                 t  == outcome.slots[k].time
             IN  /\ t.minute \in 0..(MinutesPerDay - 1)
                 /\ t.day * MinutesPerDay + t.minute
                      = DateOrdinal(call.date) * MinutesPerDay + 18 * 60
                          + up.timeOffsetMinutes
                 /\ "type" \in up.keys =>
                      outcome.slots[k].seating_type = up.type

\* the example of the specification: a slot that is not available followed
\* by an available Patio slot at -60 gives the one slot 17:00, Patio
C10_Witness ==
  /\ call.platform = "opentable" /\ call.date = GoodDate
  /\ Len(call.response.slots) = 2
  /\ ~call.response.slots[1].isAvailable
  /\ outcome = RestaurantResult(
       <<[time |-> [day |-> 739485, minute |-> 17 * 60],
          seating_type |-> "Patio"]>>)

\* C11: the search+venue adapter answers an empty venues list with a
\* successful result without slots, and it returns a result without slots
\* only then or for a first venue that lists no slots; a response without
\* the expected structure raises.
C11_EmptyVenues ==
  (call.platform = "resy" /\ outcome # NotRun) =>
    LET shape == call.response.shape
    IN  /\ shape = "no_venues" => outcome = RestaurantResult(<<>>)
        /\ (Returned /\ outcome.slots = <<>>) =>
              \/ shape = "no_venues"
              \/ shape = "venue" /\ call.response.slots = <<>>
        /\ shape \in {"malformed", "no_slots_key"} => outcome.error # "none"

\* the adapter has returned the empty result for an empty venues list
C11_Witness ==
  /\ call.platform = "resy" /\ call.response.shape = "no_venues"
  /\ outcome = RestaurantResult(<<>>)

\* the upstream slot carries everything but, possibly, its seating-type label
WellFormedButLabel(platform, slot) ==
  IF platform = "opentable"
    THEN "timeOffsetMinutes" \in slot.keys
    ELSE {"date", "start"} \subseteq slot.keys /\ IsIsoDate(slot.start.date)

\* C12: an upstream slot without the seating-type label does not fail the
\* request: with slots that are otherwise well formed the adapter returns,
\* and a slot without the label is in the result as "Standard", for the
\* graph-API adapter (no type) and for the search+venue adapter (no config
\* or no config.type).
C12_SeatingTypeDefault ==
  LET raw == call.response.slots
  IN  ( /\ outcome # NotRun
        /\ call.response.shape \in {"days", "venue"}
        /\ IsIsoDate(call.date)
        /\ \A i \in 1..Len(raw) : WellFormedButLabel(call.platform, raw[i]) )
      => /\ Returned
         /\ call.platform = "opentable" =>
              \A k \in 1..Len(outcome.slots) :
                "type" \notin raw[NthAvailable(raw, k)].keys =>
                  outcome.slots[k].seating_type = "Standard"
         /\ call.platform = "resy" =>
              /\ Len(outcome.slots) = Len(raw)
              /\ \A k \in 1..Len(outcome.slots) :
                   ~({"config", "type"} \subseteq raw[k].keys) =>
                     outcome.slots[k].seating_type = "Standard"

\* C13: a request is suspended only where a bounded timeout runs: inside
\* acquire its deadline is at most the limiter timeout away, and a network
\* call it is blocked in was made with a timeout, so that an upstream that
\* never answers cannot hold the request for ever.
C13_BoundedSuspension ==
  \A t \in Threads :
    /\ pc[t] \in {"lock", "check", "take", "deadline", "sleep"} =>
         deadline[t] - now <= GatewayTimeout
    /\ InFlight(t) # "none" => NetworkTimeout(InFlight(t)) # NoTimeout

\* ------------------------------------------------------------------ types
TypeOK ==
  /\ now \in 0..(IF MaxTime >= MaxWait THEN MaxTime ELSE MaxWait)
  /\ rate \in Rates
  /\ lock \in Threads \cup {NoThread}
  /\ pc \in [Threads -> {"idle", "lock", "check", "take",
                         "deadline", "sleep", "ret", "venue", "find",
                         "resp"}]
  /\ status \in [Threads -> {0, 200, 400, 429, 500}]
  /\ result \in [Threads -> {"none", "True", "False"}]
  /\ waiter \in [Threads -> {"none", "waiting", "delayed", "rounded"}]
  /\ rounding \in {-1, 0, 1}
====
